---- MODULE Spec2Model ----
(***************************************************************************)
(* Ray tracer core: vec3 / ray / interval arithmetic, sphere::hit,         *)
(* hittable_list::hit and camera::render.                                  *)
(*                                                                         *)
(* A double is modelled as an exact fraction n/d in lowest terms with      *)
(* d >= 0.  d = 0 encodes the three IEEE-754 special values: 1/0 is        *)
(* +infinity, -1/0 is -infinity and 0/0 is NaN.  Arithmetic and            *)
(* comparisons follow IEEE-754 on the specials (NaN propagates, every      *)
(* ordered comparison with NaN is false, x/0 is an infinity or NaN).       *)
(* Finite arithmetic is exact: queries are drawn from inputs whose         *)
(* discriminant has an exact square root, so no rounding occurs.           *)
(***************************************************************************)
EXTENDS Integers, Sequences, FiniteSets, TLC

(***************************************************************************)
(* Bounds of the model.                                                    *)
(***************************************************************************)
MaxObjects == 2

(***************************************************************************)
(* double                                                                  *)
(***************************************************************************)
Abs(k) == IF k < 0 THEN -k ELSE k

Sign(k) == IF k < 0 THEN -1 ELSE IF k > 0 THEN 1 ELSE 0

RECURSIVE GCD(_, _)
GCD(m, k) == IF k = 0 THEN m ELSE GCD(k, m % k)

\* the double nearest to n/d (d > 0); exact in this model
Num(n, d) ==
    LET lowest(g) == [n |-> n \div g, d |-> d \div g]
    IN  lowest(GCD(Abs(n), d))

Int2D(k) == [n |-> k, d |-> 1]

Zero == Int2D(0)

One == Int2D(1)

infinity == [n |-> 1, d |-> 0]

NaN == [n |-> 0, d |-> 0]

IsNaN(x) == x.d = 0 /\ x.n = 0

IsInf(x) == x.d = 0 /\ x.n # 0

IsFinite(x) == x.d > 0

Neg(x) == [n |-> -(x.n), d |-> x.d]

Add(x, y) ==
    IF IsNaN(x) \/ IsNaN(y) THEN NaN
    ELSE IF IsInf(x) /\ IsInf(y) THEN (IF x.n = y.n THEN x ELSE NaN)
    ELSE IF IsInf(x) THEN x
    ELSE IF IsInf(y) THEN y
    ELSE LET sum(g) == Num(x.n * (y.d \div g) + y.n * (x.d \div g),
                           (x.d \div g) * y.d)
         IN  sum(GCD(x.d, y.d))

Sub(x, y) == Add(x, Neg(y))

Mul(x, y) ==
    IF IsNaN(x) \/ IsNaN(y) THEN NaN
    ELSE IF IsInf(x) \/ IsInf(y)
         THEN (IF x.n = 0 \/ y.n = 0 THEN NaN
               ELSE [n |-> Sign(x.n) * Sign(y.n), d |-> 0])
    ELSE LET product(g, h) == Num((x.n \div g) * (y.n \div h),
                                  (x.d \div h) * (y.d \div g))
         IN  product(GCD(Abs(x.n), y.d), GCD(Abs(y.n), x.d))

\* a zero divisor is +0.0: no operation of the model produces -0.0
Div(x, y) ==
    IF IsNaN(x) \/ IsNaN(y) THEN NaN
    ELSE IF IsInf(x) /\ IsInf(y) THEN NaN
    ELSE IF IsInf(y) THEN Zero
    ELSE IF IsInf(x) THEN [n |-> Sign(x.n) * (IF y.n < 0 THEN -1 ELSE 1), d |-> 0]
    ELSE IF y.n = 0 THEN [n |-> Sign(x.n), d |-> 0]
    ELSE Num(Sign(y.n) * x.n * y.d, x.d * Abs(y.n))

Lt(x, y) ==
    IF IsNaN(x) \/ IsNaN(y) THEN FALSE
    ELSE IF IsInf(x) /\ IsInf(y) THEN x.n < y.n
    ELSE LET less(g) == x.n * (y.d \div g) < y.n * (x.d \div g)
         IN  less(GCD(x.d, y.d))

Le(x, y) ==
    IF IsNaN(x) \/ IsNaN(y) THEN FALSE
    ELSE x = y \/ Lt(x, y)

\* the integer part of the square root of k >= 0
RECURSIVE ISqrt(_)
ISqrt(k) ==
    IF k < 2 THEN k
    ELSE CHOOSE s \in UNION {{t, t + 1} : t \in {2 * ISqrt(k \div 4)}} :
            s * s <= k /\ k < (s + 1) * (s + 1)

IsSquare(k) == ISqrt(k) * ISqrt(k) = k

\* the discriminants the queries are drawn from: std::sqrt is exact on them
ExactSqrt(x) == IsFinite(x) /\ x.n >= 0 => IsSquare(x.n) /\ IsSquare(x.d)

\* std::sqrt rounds: a root that is not a fraction is rounded down to a
\* multiple of 1 / (d * SqrtScale), where a double rounds to 53 bits
SqrtScale == 8

Sqrt(x) ==
    IF IsNaN(x) \/ x.n < 0 THEN NaN
    ELSE IF IsInf(x) THEN x
    ELSE IF IsSquare(x.n) /\ IsSquare(x.d)
         THEN [n |-> ISqrt(x.n), d |-> ISqrt(x.d)]
    ELSE Num(ISqrt(x.n * x.d * SqrtScale * SqrtScale), x.d * SqrtScale)

Fmax(x, y) ==
    IF IsNaN(x) THEN y
    ELSE IF IsNaN(y) THEN x
    ELSE IF Lt(x, y) THEN y ELSE x

(***************************************************************************)
(* vec3                                                                    *)
(***************************************************************************)
vec3(e0, e1, e2) == <<e0, e1, e2>>

V(x, y, z) == vec3(Int2D(x), Int2D(y), Int2D(z))

vneg(v) == vec3(Neg(v[1]), Neg(v[2]), Neg(v[3]))

vadd(u, v) == vec3(Add(u[1], v[1]), Add(u[2], v[2]), Add(u[3], v[3]))

vsub(u, v) == vec3(Sub(u[1], v[1]), Sub(u[2], v[2]), Sub(u[3], v[3]))

vscale(t, v) == vec3(Mul(t, v[1]), Mul(t, v[2]), Mul(t, v[3]))

vdiv(v, t) == vscale(Div(One, t), v)

dot(u, v) == Add(Add(Mul(u[1], v[1]), Mul(u[2], v[2])), Mul(u[3], v[3]))

length_squared(v) == Add(Add(Mul(v[1], v[1]), Mul(v[2], v[2])), Mul(v[3], v[3]))

length(v) == Sqrt(length_squared(v))

unit_vector(v) == vdiv(v, length(v))

cross(u, v) ==
    vec3(Sub(Mul(u[2], v[3]), Mul(u[3], v[2])),
         Sub(Mul(u[3], v[1]), Mul(u[1], v[3])),
         Sub(Mul(u[1], v[2]), Mul(u[2], v[1])))

(***************************************************************************)
(* ray                                                                     *)
(***************************************************************************)
ray(origin, direction) == [orig |-> origin, dir |-> direction]

at(r, t) == vadd(r.orig, vscale(t, r.dir))

(***************************************************************************)
(* interval                                                                *)
(***************************************************************************)
interval(min, max) == [min |-> min, max |-> max]

\* interval::empty; the default constructor interval() builds the same
empty == interval(infinity, Neg(infinity))

size(iv) == Sub(iv.max, iv.min)

contains(iv, x) == Le(iv.min, x) /\ Le(x, iv.max)

surrounds(iv, x) == Lt(iv.min, x) /\ Lt(x, iv.max)

\* the test of max made before the test of min
clamp_max_first(iv, x) ==
    IF Lt(iv.max, x) THEN iv.max
    ELSE IF Lt(x, iv.min) THEN iv.min
    ELSE x

clamp(iv, x) ==
    IF Lt(x, iv.min) THEN iv.min
    ELSE IF Lt(iv.max, x) THEN iv.max
    ELSE x

(***************************************************************************)
(* hit_record                                                              *)
(***************************************************************************)
hit_record(p, normal, t, front_face) ==
    [p |-> p, normal |-> normal, t |-> t, front_face |-> front_face]

set_face_normal(rec, r, outward_normal) ==
    LET set(front_face) ==
            [rec EXCEPT !.front_face = front_face,
                        !.normal = IF front_face THEN outward_normal
                                   ELSE vneg(outward_normal)]
    IN  set(Lt(dot(r.dir, outward_normal), Zero))

(***************************************************************************)
(* sphere                                                                  *)
(***************************************************************************)
sphere(center, radius) == [center |-> center, radius |-> Fmax(Zero, radius)]

\* a = d.d
quad_a(s, r) == length_squared(r.dir)

\* h = d.(C - Q)
quad_h(s, r) == dot(r.dir, vsub(s.center, r.orig))

\* c = (C - Q).(C - Q) - radius^2
quad_c(s, r) ==
    Sub(length_squared(vsub(s.center, r.orig)), Mul(s.radius, s.radius))

discriminant(s, r) ==
    LET of(h) == Sub(Mul(h, h), Mul(quad_a(s, r), quad_c(s, r)))
    IN  of(quad_h(s, r))

\* a tangent ray taken for a miss
no_solution_tangent_too(d) == Le(d, Zero)

\* if (discriminant < 0) return false
no_solution(d) == Lt(d, Zero)

\* the far root tried first
root_first_far(h, sqrt_discriminant, a) == Div(Add(h, sqrt_discriminant), a)

\* root = (h - sqrt_discriminant) / a
root_first(h, sqrt_discriminant, a) == Div(Sub(h, sqrt_discriminant), a)

\* root = (h + sqrt_discriminant) / a
root_second(h, sqrt_discriminant, a) == Div(Add(h, sqrt_discriminant), a)

\* the inclusive test: a root on the boundary is accepted
out_of_range_inclusive(root, ray_tmin, ray_tmax) ==
    Lt(root, ray_tmin) \/ Lt(ray_tmax, root)

\* root <= ray_tmin || ray_tmax <= root
out_of_range(root, ray_tmin, ray_tmax) ==
    Le(root, ray_tmin) \/ Le(ray_tmax, root)

\* vec3 outward_normal = (rec.p - center) / radius
outward_normal(s, p) == vdiv(vsub(p, s.center), s.radius)

\* the record as sphere::hit fills it for the accepted root
hit_at(s, r, root, rec) ==
    LET hit(p) ==
            set_face_normal([rec EXCEPT !.t = root, !.p = p], r,
                            outward_normal(s, p))
    IN  hit(at(r, root))

\* rec.t assigned as soon as a root is computed, before its range test
sphere_hit_early_write(s, r, ray_tmin, ray_tmax, rec) ==
    LET try(d, root1, root2) ==
            IF no_solution(d) THEN [ret |-> FALSE, rec |-> rec]
            ELSE IF ~out_of_range(root1, ray_tmin, ray_tmax)
                 THEN [ret |-> TRUE, rec |-> hit_at(s, r, root1, rec)]
            ELSE IF ~out_of_range(root2, ray_tmin, ray_tmax)
                 THEN [ret |-> TRUE, rec |-> hit_at(s, r, root2, rec)]
            ELSE [ret |-> FALSE, rec |-> [rec EXCEPT !.t = root2]]
        solve(a, h, d, sqrt_discriminant) ==
            try(d, root_first(h, sqrt_discriminant, a),
                root_second(h, sqrt_discriminant, a))
    IN  solve(quad_a(s, r), quad_h(s, r), discriminant(s, r),
              Sqrt(discriminant(s, r)))

\* the candidate roots tried the other way round: (h + sqrtD) / a first
sphere_hit_far_root_first(s, r, ray_tmin, ray_tmax, rec) ==
    LET try(d, root1, root2) ==
            IF no_solution(d) THEN [ret |-> FALSE, rec |-> rec]
            ELSE IF ~out_of_range(root1, ray_tmin, ray_tmax)
                 THEN [ret |-> TRUE, rec |-> hit_at(s, r, root1, rec)]
            ELSE IF ~out_of_range(root2, ray_tmin, ray_tmax)
                 THEN [ret |-> TRUE, rec |-> hit_at(s, r, root2, rec)]
            ELSE [ret |-> FALSE, rec |-> rec]
        solve(a, h, d, sqrt_discriminant) ==
            try(d, root_second(h, sqrt_discriminant, a),
                root_first(h, sqrt_discriminant, a))
    IN  solve(quad_a(s, r), quad_h(s, r), discriminant(s, r),
              Sqrt(discriminant(s, r)))

\* sphere::hit: the returned value and the record the caller holds afterwards
sphere_hit(s, r, ray_tmin, ray_tmax, rec) ==
    LET try(d, root1, root2) ==
            IF no_solution(d) THEN [ret |-> FALSE, rec |-> rec]
            ELSE IF ~out_of_range(root1, ray_tmin, ray_tmax)
                 THEN [ret |-> TRUE, rec |-> hit_at(s, r, root1, rec)]
            ELSE IF ~out_of_range(root2, ray_tmin, ray_tmax)
                 THEN [ret |-> TRUE, rec |-> hit_at(s, r, root2, rec)]
            ELSE [ret |-> FALSE, rec |-> rec]
        solve(a, h, d, sqrt_discriminant) ==
            try(d, root_first(h, sqrt_discriminant, a),
                root_second(h, sqrt_discriminant, a))
    IN  solve(quad_a(s, r), quad_h(s, r), discriminant(s, r),
              Sqrt(discriminant(s, r)))

(***************************************************************************)
(* Inputs of the queries.                                                  *)
(***************************************************************************)
Half == Num(1, 2)

\* ray() is the default-constructed ray: its direction is the zero vector
Rays ==
    {ray(o, d) : o \in {V(0, 0, 0), V(0, 0, -1)},
                 d \in {V(0, 0, -1), V(0, 0, -2), V(1, 0, -1)}}
    \cup {ray(V(0, 0, 0), V(0, 0, 0))}

\* spheres as the scene construction builds them; the constructor is handed
\* a radius and stores fmax(0, radius)
Spheres ==
    {sphere(V(0, 0, -1), Half), sphere(V(0, 0, -1), One),
     sphere(V(0, 0, -2), One), sphere(V(1, 0, -1), One),
     sphere(V(0, 0, -1), Int2D(-1))}

universe == interval(Neg(infinity), infinity)

Intervals == {interval(Zero, infinity), interval(Half, Num(3, 2)), universe}

\* the caller's record as handed to a query: the data of an earlier hit
Stale == hit_record(V(9, 9, 9), V(8, 8, 8), Int2D(-7), TRUE)

\* a hit_record as declared: the vec3 members are zero-initialised; t and
\* front_face are indeterminate and are never read before they are written
NoRec == hit_record(V(0, 0, 0), V(0, 0, 0), Zero, FALSE)

(***************************************************************************)
(* State.                                                                  *)
(***************************************************************************)
VARIABLES
    objects,         \* hittable_list::objects
    pc,              \* "idle", "loop" (inside hittable_list::hit), "done", "sdone"
    callee,          \* 0: the list is queried; k > 0: objects[k] is queried
    r,               \* the ray of the query in progress
    ray_t,           \* the interval of the query in progress
    rec,             \* the caller's hit_record
    rec_in,          \* rec as it was when the query was called
    temp_rec,        \* hittable_list::hit: temporary hit data storage
    hit_anything,    \* hittable_list::hit
    closest_so_far,  \* hittable_list::hit
    idx,             \* hittable_list::hit: position of the range-for in objects
    ret              \* value returned by the query

hitvars == <<objects, pc, callee, r, ray_t, rec, rec_in, temp_rec,
             hit_anything, closest_so_far, idx, ret>>

VARIABLES
    aspect_ratio,         \* camera: ratio of image width over height
    image_width,          \* camera: rendered image width in pixel count
    samples_per_pixel,    \* camera: count of random samples for each pixel
    image_height,         \* camera (private): rendered image height
    pixel_samples_scale,  \* camera (private): 1 / samples_per_pixel
    center,               \* camera (private): camera centre
    pixel00_loc,          \* camera (private): location of pixel 0, 0
    pixel_delta_u,        \* camera (private): offset to pixel to the right
    pixel_delta_v,        \* camera (private): offset to pixel below
    phase,                \* "uninitialized", "initialized", "rendering", "done"
    at_loop,              \* render: "rows", "columns" or "samples" loop test
    j,                    \* render: row
    i,                    \* render: column
    sample,               \* render: sample
    header,               \* image_out: width and height of the P3 header
    sink,                 \* image_out: the cells whose colour was written
    pixel_color,          \* render: sum of the sample colours of the pixel
    cast,                 \* render: the sample colours of the pixel, in order
    written               \* image_out: the colour handed to it last

config == <<aspect_ratio, image_width, samples_per_pixel>>

derived == <<image_height, pixel_samples_scale, center, pixel00_loc,
             pixel_delta_u, pixel_delta_v>>

loopvars == <<phase, at_loop, j, i, sample, header, sink>>

colvars == <<pixel_color, cast, written>>

camvars == <<config, derived, loopvars, colvars>>

VARIABLE
    probe    \* an interval, a value x, and what the interval answers for x

vars == <<hitvars, camvars, probe>>

\* the answers of the interval iv for the value x
measure(iv, x) ==
    [iv |-> iv, x |-> x, size |-> size(iv), contains |-> contains(iv, x),
     surrounds |-> surrounds(iv, x), clamp |-> clamp(iv, x)]

IntervalInit == probe = measure(universe, Zero)

\* the member functions of iv called with x
interval_query(iv, x) == probe' = measure(iv, x)

\* a collection holding the members of world, no query in progress
SceneInit(world) ==
    /\ objects = world
    /\ pc = "idle"
    /\ callee = 0
    /\ r = ray(V(0, 0, 0), V(0, 0, 0))
    /\ ray_t = interval(infinity, Neg(infinity))
    /\ rec = NoRec
    /\ rec_in = NoRec
    /\ temp_rec = NoRec
    /\ hit_anything = FALSE
    /\ closest_so_far = Zero
    /\ idx = 0
    /\ ret = FALSE

HitInit == SceneInit(<<>>)

\* every member's discriminant has an exact square root for this ray
Exact(q) == \A k \in 1..Len(objects) : ExactSqrt(discriminant(objects[k], q))

(***************************************************************************)
(* hittable_list                                                           *)
(***************************************************************************)
\* the new member put in front of the others
add_front(object) ==
    /\ pc = "idle"
    /\ Len(objects) < MaxObjects
    /\ objects' = <<object>> \o objects
    /\ UNCHANGED <<pc, callee, r, ray_t, rec, rec_in, temp_rec,
                   hit_anything, closest_so_far, idx, ret>>

\* objects.push_back(object)
add(object) ==
    /\ pc = "idle"
    /\ Len(objects) < MaxObjects
    /\ objects' = Append(objects, object)
    /\ UNCHANGED <<pc, callee, r, ray_t, rec, rec_in, temp_rec,
                   hit_anything, closest_so_far, idx, ret>>

clear ==
    /\ pc = "idle"
    /\ objects' = <<>>
    /\ UNCHANGED <<pc, callee, r, ray_t, rec, rec_in, temp_rec,
                   hit_anything, closest_so_far, idx, ret>>

\* the locals of hittable_list::hit and the caller's record
frame(tmp, any, closest, out) ==
    [temp_rec |-> tmp, hit_anything |-> any, closest_so_far |-> closest,
     rec |-> out]

\* every member queried with the whole interval: the last member hit wins
loop_body_whole_interval(f, object, q, t) ==
    LET after(res) ==
            IF res.ret
            THEN frame(res.rec, TRUE, res.rec.t, res.rec)
            ELSE frame(res.rec, f.hit_anything, f.closest_so_far, f.rec)
    IN  after(sphere_hit(object, q, t.min, t.max, f.temp_rec))

\* the far bound set to the interval's min by a hit: the first member hit wins
loop_body_first_wins(f, object, q, t) ==
    LET after(res) ==
            IF res.ret
            THEN frame(res.rec, TRUE, t.min, res.rec)
            ELSE frame(res.rec, f.hit_anything, f.closest_so_far, f.rec)
    IN  after(sphere_hit(object, q, t.min, f.closest_so_far, f.temp_rec))

\* closest_so_far not updated by a hit: the last member hit wins
loop_body_far_bound_kept(f, object, q, t) ==
    LET after(res) ==
            IF res.ret
            THEN frame(res.rec, TRUE, f.closest_so_far, res.rec)
            ELSE frame(res.rec, f.hit_anything, f.closest_so_far, f.rec)
    IN  after(sphere_hit(object, q, t.min, f.closest_so_far, f.temp_rec))

\* body of the range-for: object is queried with [ray_t.min, closest_so_far]
loop_body(f, object, q, t) ==
    LET after(res) ==
            IF res.ret
            THEN frame(res.rec, TRUE, res.rec.t, res.rec)
            ELSE frame(res.rec, f.hit_anything, f.closest_so_far, f.rec)
    IN  after(sphere_hit(object, q, t.min, f.closest_so_far, f.temp_rec))

\* the range-for over objs from position k on
RECURSIVE run_loop(_, _, _, _, _)
run_loop(f, objs, k, q, t) ==
    IF k > Len(objs) THEN f
    ELSE run_loop(loop_body(f, objs[k], q, t), objs, k + 1, q, t)

\* hittable_list::hit on the member sequence objs, as one function
list_hit(objs, q, t, rec0) ==
    LET returned_from(f) == [ret |-> f.hit_anything, rec |-> f.rec]
    IN  returned_from(run_loop(frame(NoRec, FALSE, t.max, rec0), objs, 1, q, t))

\* entry of hittable_list::hit: the locals are declared
list_hit_begin(q, t) ==
    /\ pc = "idle"
    /\ Exact(q)
    /\ pc' = "loop"
    /\ callee' = 0
    /\ r' = q
    /\ ray_t' = t
    /\ rec' = Stale
    /\ rec_in' = Stale
    /\ temp_rec' = NoRec
    /\ hit_anything' = FALSE
    /\ closest_so_far' = t.max
    /\ idx' = 1
    /\ UNCHANGED <<objects, ret>>

\* one iteration of the range-for
list_hit_member ==
    /\ pc = "loop"
    /\ idx <= Len(objects)
    /\ \E f \in {loop_body(frame(temp_rec, hit_anything, closest_so_far, rec),
                             objects[idx], r, ray_t)} :
           /\ temp_rec' = f.temp_rec
           /\ hit_anything' = f.hit_anything
           /\ closest_so_far' = f.closest_so_far
           /\ rec' = f.rec
    /\ idx' = idx + 1
    /\ UNCHANGED <<objects, pc, callee, r, ray_t, rec_in, ret>>

list_hit_return ==
    /\ pc = "loop"
    /\ idx > Len(objects)
    /\ ret' = hit_anything
    /\ pc' = "done"
    /\ UNCHANGED <<objects, callee, r, ray_t, rec, rec_in, temp_rec,
                   hit_anything, closest_so_far, idx>>

\* objects[k]->hit(q, t.min, t.max, rec) called on a member directly
member_hit(k, q, t) ==
    /\ pc = "idle"
    /\ k \in 1..Len(objects)
    /\ Exact(q)
    /\ \E res \in {sphere_hit(objects[k], q, t.min, t.max, Stale)} :
           /\ rec' = res.rec
           /\ ret' = res.ret
    /\ pc' = "sdone"
    /\ callee' = k
    /\ r' = q
    /\ ray_t' = t
    /\ rec_in' = Stale
    /\ UNCHANGED <<objects, temp_rec, hit_anything, closest_so_far, idx>>

\* the caller has consumed the result; its record goes out of scope
query_end ==
    /\ pc \in {"done", "sdone"}
    /\ pc' = "idle"
    /\ callee' = 0
    /\ r' = ray(V(0, 0, 0), V(0, 0, 0))
    /\ ray_t' = interval(infinity, Neg(infinity))
    /\ rec' = NoRec
    /\ rec_in' = NoRec
    /\ temp_rec' = NoRec
    /\ hit_anything' = FALSE
    /\ closest_so_far' = Zero
    /\ idx' = 0
    /\ ret' = FALSE
    /\ UNCHANGED objects

HitNext ==
    \/ \E s \in Spheres : add(s)
    \/ clear
    \/ \E q \in Rays, t \in Intervals : list_hit_begin(q, t)
    \/ list_hit_member
    \/ list_hit_return
    \/ \E k \in 1..MaxObjects, q \in Rays, t \in Intervals : member_hit(k, q, t)
    \/ query_end

(***************************************************************************)
(* camera                                                                  *)
(***************************************************************************)
DefaultImageWidth == 100

DefaultSamplesPerPixel == 10

\* int(x) of a finite double: the fraction is discarded
to_int(x) == IF x.n >= 0 THEN x.n \div x.d ELSE -((-(x.n)) \div x.d)

\* the height left at 0 when the truncation is 0
height_of_unclamped(width, ratio) == to_int(Div(Int2D(width), ratio))

\* image_height = int(image_width / aspect_ratio), at least 1
height_of(width, ratio) ==
    LET clamped(h) == IF h < 1 THEN 1 ELSE h
    IN  clamped(to_int(Div(Int2D(width), ratio)))

\* initialize() computing the height only once: a camera that has rendered
\* keeps the height of its first render
initialize_keeps_height(ratio, width, samples) ==
    LET height == IF image_height # 0 THEN image_height
                  ELSE height_of(width, ratio)
        c == V(0, 0, 0)
        viewport_width == Mul(Int2D(2), Div(Int2D(width), Int2D(height)))
        viewport_u == vec3(viewport_width, Zero, Zero)
        viewport_v == vec3(Zero, Int2D(-2), Zero)
        delta_u == vdiv(viewport_u, Int2D(width))
        delta_v == vdiv(viewport_v, Int2D(height))
        viewport_upper_left ==
            vsub(vsub(vsub(c, vec3(Zero, Zero, One)),
                      vdiv(viewport_u, Int2D(2))),
                 vdiv(viewport_v, Int2D(2)))
    IN  [image_height |-> height,
         pixel_samples_scale |-> Div(One, Int2D(samples)),
         center |-> c,
         pixel_delta_u |-> delta_u,
         pixel_delta_v |-> delta_v,
         pixel00_loc |-> vadd(viewport_upper_left,
                              vscale(Half, vadd(delta_u, delta_v)))]

\* camera::initialize: the derived state for a configuration
initialize(ratio, width, samples) ==
    LET height == height_of(width, ratio)
        c == V(0, 0, 0)
        focal_length == One
        viewport_height == Int2D(2)
        viewport_width ==
            Mul(viewport_height, Div(Int2D(width), Int2D(height)))
        viewport_u == vec3(viewport_width, Zero, Zero)
        viewport_v == vec3(Zero, Neg(viewport_height), Zero)
        delta_u == vdiv(viewport_u, Int2D(width))
        delta_v == vdiv(viewport_v, Int2D(height))
        viewport_upper_left ==
            vsub(vsub(vsub(c, vec3(Zero, Zero, focal_length)),
                      vdiv(viewport_u, Int2D(2))),
                 vdiv(viewport_v, Int2D(2)))
    IN  [image_height |-> height,
         pixel_samples_scale |-> Div(One, Int2D(samples)),
         center |-> c,
         pixel_delta_u |-> delta_u,
         pixel_delta_v |-> delta_v,
         pixel00_loc |-> vadd(viewport_upper_left,
                              vscale(Half, vadd(delta_u, delta_v)))]

\* the values random_double() returns to the two calls of one
\* sample_square(): a point of the unit square [0, 1) x [0, 1)
Draws == {<<Zero, Zero>>, <<Half, Half>>}

\* a point of the square [-0.5, -0.5] - [+0.5, +0.5] around the pixel centre
sample_square(u, v) == vec3(Sub(u, Half), Sub(v, Half), Zero)

\* the ray from the camera centre through a sample point of the pixel in
\* column col and row row
get_ray(col, row, u, v) ==
    LET offset == sample_square(u, v)
        pixel_sample ==
            vadd(vadd(pixel00_loc,
                      vscale(Add(Int2D(col), offset[1]), pixel_delta_u)),
                 vscale(Add(Int2D(row), offset[2]), pixel_delta_v))
        ray_origin == center
        ray_direction == vsub(pixel_sample, ray_origin)
    IN  ray(ray_origin, ray_direction)

white == vec3(One, One, One)

sky_blue == vec3(Half, Num(7, 10), One)

\* a = 0.5 * (unit_direction.y() + 1.0)
blend_a(q) == Mul(Half, Add(unit_vector(q.dir)[2], One))

\* the two ends of the blend exchanged
background_swapped(q) ==
    LET blended(a) == vadd(vscale(Sub(One, a), sky_blue), vscale(a, white))
    IN  blended(blend_a(q))

\* the background: (1.0 - a) * white + a * sky_blue
background(q) ==
    LET blended(a) == vadd(vscale(Sub(One, a), white), vscale(a, sky_blue))
    IN  blended(blend_a(q))

\* the colour of the ray q in the scene world
ray_color(q, world) ==
    LET shade(res) ==
            IF res.ret
            THEN vscale(Half, vadd(res.rec.normal, white))
            ELSE background(q)
    IN  shade(list_hit(world, q, interval(Zero, infinity), NoRec))

\* a camera whose public members hold a configuration, before any render
CameraInit(ratio, width, samples) ==
    /\ aspect_ratio = ratio
    /\ image_width = width
    /\ samples_per_pixel = samples
    /\ image_height = 0
    /\ pixel_samples_scale = Zero
    /\ center = V(0, 0, 0)
    /\ pixel00_loc = V(0, 0, 0)
    /\ pixel_delta_u = V(0, 0, 0)
    /\ pixel_delta_v = V(0, 0, 0)
    /\ phase = "uninitialized"
    /\ at_loop = "rows"
    /\ j = 0
    /\ i = 0
    /\ sample = 0
    /\ header = <<0, 0>>
    /\ sink = <<>>
    /\ pixel_color = V(0, 0, 0)
    /\ cast = <<>>
    /\ written = <<>>

\* the caller assigns the public members between renders
configure(ratio, width, samples) ==
    /\ phase \in {"uninitialized", "done"}
    /\ aspect_ratio' = ratio
    /\ image_width' = width
    /\ samples_per_pixel' = samples
    /\ phase' = "uninitialized"
    /\ UNCHANGED <<derived, at_loop, j, i, sample, header, sink, colvars>>

\* render(world) is called: initialize()
render_initialize ==
    /\ phase \in {"uninitialized", "done"}
    /\ \E d \in {initialize(aspect_ratio, image_width, samples_per_pixel)} :
           /\ image_height' = d.image_height
           /\ pixel_samples_scale' = d.pixel_samples_scale
           /\ center' = d.center
           /\ pixel00_loc' = d.pixel00_loc
           /\ pixel_delta_u' = d.pixel_delta_u
           /\ pixel_delta_v' = d.pixel_delta_v
    /\ phase' = "initialized"
    /\ UNCHANGED <<config, at_loop, j, i, sample, header, sink, colvars>>

\* the output file is created anew, its header written; j = 0
render_open ==
    /\ phase = "initialized"
    /\ sink' = <<>>
    /\ header' = <<image_width, image_height>>
    /\ j' = 0
    /\ at_loop' = "rows"
    /\ phase' = "rendering"
    /\ written' = <<>>
    /\ UNCHANGED <<config, derived, i, sample, pixel_color, cast>>

\* for (j ...): j < image_height; i = 0
row_begin ==
    /\ phase = "rendering" /\ at_loop = "rows"
    /\ j < image_height
    /\ i' = 0
    /\ at_loop' = "columns"
    /\ UNCHANGED <<config, derived, phase, j, sample, header, sink, colvars>>

\* for (i ...): i < image_width; pixel_color(0, 0, 0); sample = 0
pixel_begin ==
    /\ phase = "rendering" /\ at_loop = "columns"
    /\ i < image_width
    /\ sample' = 0
    /\ at_loop' = "samples"
    /\ pixel_color' = V(0, 0, 0)
    /\ cast' = <<>>
    /\ UNCHANGED <<config, derived, phase, j, i, header, sink, written>>

\* the sample colour assigned to the accumulator instead of added to it
cast_sample_overwrites ==
    /\ phase = "rendering" /\ at_loop = "samples"
    /\ sample < samples_per_pixel
    /\ \E draw \in Draws :
          \E c \in {ray_color(get_ray(i, j, draw[1], draw[2]), objects)} :
              /\ pixel_color' = c
              /\ cast' = Append(cast, c)
    /\ sample' = sample + 1
    /\ UNCHANGED <<config, derived, phase, at_loop, j, i, header, sink,
                   written>>

\* for (sample ...): sample < samples_per_pixel;
\* pixel_color += ray_color(get_ray(i, j), world); sample++
cast_sample ==
    /\ phase = "rendering" /\ at_loop = "samples"
    /\ sample < samples_per_pixel
    /\ \E draw \in Draws :
          \E c \in {ray_color(get_ray(i, j, draw[1], draw[2]), objects)} :
              /\ pixel_color' = vadd(pixel_color, c)
              /\ cast' = Append(cast, c)
    /\ sample' = sample + 1
    /\ UNCHANGED <<config, derived, phase, at_loop, j, i, header, sink,
                   written>>

\* the loops nested the other way round: the cell is written as (j, i)
write_color_transposed ==
    /\ phase = "rendering" /\ at_loop = "samples"
    /\ ~(sample < samples_per_pixel)
    /\ sink' = Append(sink, <<j, i>>)
    /\ written' = vscale(pixel_samples_scale, pixel_color)
    /\ i' = i + 1
    /\ at_loop' = "columns"
    /\ UNCHANGED <<config, derived, phase, j, sample, header, pixel_color,
                   cast>>

\* the sample loop is left:
\* write_color(image_out, pixel_samples_scale * pixel_color); i++
write_color ==
    /\ phase = "rendering" /\ at_loop = "samples"
    /\ ~(sample < samples_per_pixel)
    /\ sink' = Append(sink, <<i, j>>)
    /\ written' = vscale(pixel_samples_scale, pixel_color)
    /\ i' = i + 1
    /\ at_loop' = "columns"
    /\ UNCHANGED <<config, derived, phase, j, sample, header, pixel_color,
                   cast>>

\* a return after the first row: the column loop is left and render with it
row_end_returns ==
    /\ phase = "rendering" /\ at_loop = "columns"
    /\ ~(i < image_width)
    /\ phase' = "done"
    /\ at_loop' = "rows"
    /\ UNCHANGED <<config, derived, j, i, sample, header, sink, colvars>>

\* the column loop is left: j++
row_end ==
    /\ phase = "rendering" /\ at_loop = "columns"
    /\ ~(i < image_width)
    /\ j' = j + 1
    /\ at_loop' = "rows"
    /\ UNCHANGED <<config, derived, phase, i, sample, header, sink, colvars>>

\* the row loop is left: render returns
render_end ==
    /\ phase = "rendering" /\ at_loop = "rows"
    /\ ~(j < image_height)
    /\ phase' = "done"
    /\ UNCHANGED <<config, derived, at_loop, j, i, sample, header, sink,
                   colvars>>

(***************************************************************************)
(* Configurations.                                                         *)
(***************************************************************************)
MaxWidth == 3

MaxSamples == 2

\* the worlds rendered: nothing; a sphere in front of the camera; a sphere
\* requested with radius -1 on the surface of a sphere behind it
Scenes ==
    {<<>>,
     <<sphere(V(0, 0, -1), Half)>>,
     <<sphere(V(0, 0, -1), Int2D(-1)), sphere(V(0, 0, -2), One)>>}

\* configurations small enough to render
RenderRatios == {Half, One, Int2D(2)}

\* configurations initialize() is applied to
Ratios == RenderRatios \cup {Num(16, 9), Num(3, 2), Int2D(-1)}

Widths == (1..MaxWidth) \cup {DefaultImageWidth, 400}

(***************************************************************************)
(* Specifications.                                                         *)
(***************************************************************************)
\* the scene is empty and the camera has its default members
Init ==
    /\ HitInit
    /\ CameraInit(One, DefaultImageWidth, DefaultSamplesPerPixel)
    /\ IntervalInit

\* queries of a scene under construction
Next == HitNext /\ UNCHANGED <<camvars, probe>>

Spec == Init /\ [][Next]_vars

\* initialize() applied to a configuration
InitializeInit ==
    /\ HitInit
    /\ IntervalInit
    /\ \E ratio \in Ratios, width \in Widths,
          samples \in (1..MaxSamples) \cup {DefaultSamplesPerPixel} :
          CameraInit(ratio, width, samples)

InitializeNext == render_initialize /\ UNCHANGED <<hitvars, probe>>

SpecInitialize == InitializeInit /\ [][InitializeNext]_vars

\* renders of small images, the configuration changed between them
RenderInit ==
    /\ \E world \in Scenes : SceneInit(world)
    /\ IntervalInit
    /\ \E ratio \in RenderRatios, width \in 1..MaxWidth, samples \in 1..MaxSamples :
          CameraInit(ratio, width, samples)

RenderNext ==
    /\ \/ \E ratio \in RenderRatios, width \in 1..MaxWidth, samples \in 1..MaxSamples :
             configure(ratio, width, samples)
       \/ render_initialize
       \/ render_open
       \/ row_begin
       \/ pixel_begin
       \/ cast_sample
       \/ write_color
       \/ row_end
       \/ render_end
    /\ UNCHANGED <<hitvars, probe>>

SpecRender == RenderInit /\ [][RenderNext]_vars

\* a step of a render in progress outside the sample loop: render() is
\* sequential code without blocking calls, so the step that is next is taken
RenderStep ==
    /\ \/ render_open
       \/ row_begin
       \/ pixel_begin
       \/ row_end
       \/ render_end
    /\ UNCHANGED <<hitvars, probe>>

\* the sample loop goes on: the conditions and the counters of cast_sample
\* and write_color, get_ray, ray_color and write_color returning for every
\* ray and every finite scene
sample_loop ==
    /\ phase = "rendering" /\ at_loop = "samples"
    /\ \/ /\ sample < samples_per_pixel
          /\ sample' = sample + 1 /\ at_loop' = at_loop
       \/ /\ ~(sample < samples_per_pixel)
          /\ sample' = sample /\ at_loop' = "columns"

\* renders that, once called, go on
SpecRenderFair ==
    /\ RenderInit /\ [][RenderNext]_vars
    /\ WF_vars(RenderStep) /\ WF_<<sample, at_loop>>(sample_loop)

\* the bounds of the intervals and the values they are asked about
Bounds ==
    {Neg(infinity), Int2D(-1), Zero, Half, One, infinity}

Values == Bounds \cup {Int2D(-2), Num(1, 4), Int2D(2), NaN}

\* intervals of every shape, empty and inverted ones included, asked
IntervalNext ==
    /\ \E min \in Bounds, max \in Bounds, x \in Values :
          interval_query(interval(min, max), x)
    /\ UNCHANGED <<hitvars, camvars>>

SpecInterval == Init /\ [][IntervalNext]_vars

(***************************************************************************)
(* Properties of sphere::hit and hittable_list::hit.                       *)
(***************************************************************************)
returned == pc \in {"done", "sdone"}

NoDirection == V(0, 0, 0)

\* the member queried by member_hit
queried == objects[callee]

\* what member k answers when queried alone with the caller's interval
alone(k) == sphere_hit(objects[k], r, ray_t.min, ray_t.max, rec_in)

\* the members that report a hit inside the caller's interval
hitters == {k \in 1..Len(objects) : alone(k).ret}

strictly_inside(t, range) == Lt(range.min, t) /\ Lt(t, range.max)

\* the quadratic's leading coefficient a = |direction|^2 is above zero
directed(q) == Lt(Zero, length_squared(q.dir))

\* C1 as stated: whenever hit() of a sphere or of the collection returns
\* true, for every ray, the recorded t satisfies tmin < t < tmax.
C1_EveryRay == (returned /\ ret) => strictly_inside(rec.t, ray_t)

\* C1, amended: for every ray whose direction has a squared length above
\* zero, whenever hit() of a sphere or of the collection returns true the
\* recorded t satisfies tmin < t < tmax strictly.
C1_StrictlyInside ==
    (returned /\ ret /\ directed(r)) => strictly_inside(rec.t, ray_t)

\* the first root lies exactly on tmin, is rejected, and the second is reported
C1_BoundaryRootRejected ==
    /\ pc = "sdone" /\ ret /\ directed(r)
    /\ root_first(quad_h(queried, r), Sqrt(discriminant(queried, r)),
                  quad_a(queried, r)) = ray_t.min
    /\ strictly_inside(rec.t, ray_t)

\* C2: hittable_list::hit returns true iff at least one member reports a hit
\* inside the supplied interval (false for an empty collection), and then rec
\* is the record of a member hit than which no member's hit has a smaller t.
C2_Nearest ==
    pc = "done" =>
        /\ ret = (hitters # {})
        /\ ret => \E k \in hitters :
                     /\ rec = alone(k).rec
                     /\ \A m \in hitters : ~Lt(alone(m).rec.t, rec.t)

\* both members hit, the first added is strictly nearer and is the one reported
C2_FirstOfTwoNearer ==
    /\ pc = "done" /\ ret /\ Len(objects) = 2
    /\ hitters = {1, 2}
    /\ Lt(alone(1).rec.t, alone(2).rec.t)
    /\ rec = alone(1).rec

\* objects in the order of the permutation f of its positions
Permuted(f) == [k \in 1..Len(objects) |-> objects[f[k]]]

\* the members whose own hit is at the reported t
nearest == {k \in hitters : alone(k).rec.t = rec.t}

C4_FaceNormal ==
    (pc = "sdone" /\ ret /\ directed(r)) =>
        LET n == outward_normal(queried, rec.p)
        IN  /\ rec.front_face = Lt(dot(r.dir, n), Zero)
            /\ rec.normal = (IF rec.front_face THEN n ELSE vneg(n))
            /\ Le(dot(r.dir, rec.normal), Zero)

\* C5: for every sphere the constructor can produce and every ray with
\* non-zero direction, whenever sphere::hit returns true the recorded normal
\* has unit length and the point equals ray.at(t).
C5_UnitNormal ==
    (pc = "sdone" /\ ret /\ r.dir # NoDirection) =>
        /\ length_squared(rec.normal) = One
        /\ rec.p = at(r, rec.t)

\* C6: whenever sphere::hit or hittable_list::hit returns false the record
\* it was handed is unchanged: the caller's rec, and the temp_rec that the
\* collection hands to its members.
C6_RecordUntouched ==
    (returned /\ ~ret) =>
        /\ rec = rec_in
        /\ pc = "done" => temp_rec = NoRec

\* a collection of two members, both queried, both missed
C6_TwoMembersMissed ==
    /\ pc = "done" /\ ~ret /\ Len(objects) = 2
    /\ ~no_solution(discriminant(objects[1], r))
    /\ rec = Stale

\* the ray's direction points from its origin at the centre of s
aimed_at(s, q) ==
    /\ cross(q.dir, vsub(s.center, q.orig)) = V(0, 0, 0)
    /\ Lt(Zero, dot(q.dir, vsub(s.center, q.orig)))

\* the ray's origin lies outside s
outside(s, q) ==
    Lt(Mul(s.radius, s.radius), length_squared(vsub(s.center, q.orig)))

\* C9: for a ray from outside a sphere aimed at its centre, queried with
\* (0, infinity), sphere::hit returns true with
\* t = (distance(origin, center) - radius) / |direction|; the sphere at
\* (0,0,-1) of radius 0.5 and the ray from (0,0,0) along (0,0,-1) give
\* t = 0.5, point (0,0,-0.5), normal (0,0,1), front_face = true.
C9_AimedAtCentre ==
    (pc = "sdone" /\ ray_t = interval(Zero, infinity)
        /\ aimed_at(queried, r) /\ outside(queried, r)) =>
        /\ ret
        /\ rec.t = Div(Sub(Sqrt(length_squared(vsub(queried.center, r.orig))),
                           queried.radius),
                       Sqrt(length_squared(r.dir)))
        /\ (queried = sphere(V(0, 0, -1), Half) /\ r = ray(V(0, 0, 0), V(0, 0, -1)))
              => rec = hit_record(vec3(Zero, Zero, Neg(Half)), V(0, 0, 1), Half, TRUE)

\* a direction of length 2 aimed at the centre of a sphere of radius 0.5
C9_LongDirection ==
    /\ pc = "sdone" /\ ray_t = interval(Zero, infinity)
    /\ aimed_at(queried, r) /\ outside(queried, r)
    /\ r.dir = V(0, 0, -2) /\ queried.radius = Half
    /\ ret /\ rec.t = Num(1, 4)

\* C10: for a ray tangent to a sphere (a line, so its direction is not zero,
\* with discriminant exactly 0) both roots are h/a, and sphere::hit returns
\* true with t = h/a if h/a lies strictly inside the interval and false
\* otherwise; a discriminant below 0 always returns false.
C10_Tangent ==
    (pc = "sdone" /\ r.dir # NoDirection) =>
        LET a == quad_a(queried, r)
            h == quad_h(queried, r)
            d == discriminant(queried, r)
        IN  /\ d = Zero =>
                  /\ root_first(h, Sqrt(d), a) = Div(h, a)
                  /\ root_second(h, Sqrt(d), a) = Div(h, a)
                  /\ ret = strictly_inside(Div(h, a), ray_t)
                  /\ ret => rec.t = Div(h, a)
            /\ Lt(d, Zero) => ~ret

\* a ray touching a sphere of radius 1 in one point, reported
C10_TangentHit ==
    /\ pc = "sdone" /\ r.dir # NoDirection
    /\ discriminant(queried, r) = Zero /\ queried.radius = One
    /\ ret

\* objects is a prefix of what it is in the next state
kept == /\ Len(objects') >= Len(objects)
        /\ \A k \in 1..Len(objects) : objects'[k] = objects[k]

\* C16 as stated: after any sequence of the collection's public operations
\* every member that was added is still present in its insertion order, and
\* hit() never changes the member sequence.
C16_AppendOnly == [][kept]_vars

\* C16, amended: the member sequence changes only by add(), which appends
\* one member behind the others, and by clear(), which removes them all;
\* hit() of the collection or of a member never changes it.
C16_AppendOrClear ==
    [][/\ \/ objects' = objects
          \/ Len(objects') = Len(objects) + 1 /\ kept
          \/ objects' = <<>>
       /\ (pc # "idle" \/ pc' # "idle") => objects' = objects]_vars

\* two different members, added in this order, queried as a collection
C16_TwoMembersQueried ==
    /\ pc = "done" /\ Len(objects) = 2
    /\ objects[1] = sphere(V(0, 0, -1), Half)
    /\ objects[2] = sphere(V(0, 0, -2), One)

\* the answer of the member at idx to the interval [ray_t.min, closest_so_far]
asked == sphere_hit(objects[idx], r, ray_t.min, closest_so_far, temp_rec)

\* one step of hittable_list::hit keeps the far bound as C19 says
far_bound_step ==
    /\ (pc = "idle" /\ pc' = "loop") => closest_so_far' = ray_t'.max
    /\ (pc = "loop" /\ pc' = "loop") =>
          /\ ray_t' = ray_t
          /\ ~Lt(closest_so_far, closest_so_far')
          /\ temp_rec' = asked.rec
          /\ asked.ret => /\ Lt(closest_so_far', closest_so_far)
                          /\ closest_so_far' = temp_rec'.t
          /\ ~asked.ret => closest_so_far' = closest_so_far
    /\ (pc = "loop" /\ pc' = "done") =>
          /\ ret' = hit_anything
          /\ ret' => closest_so_far' = rec'.t

\* C19 as stated: closest_so_far starts at the interval's max, never
\* increases from one member to the next, is strictly decreased by every
\* member hit, every member is queried with [interval.min, closest_so_far],
\* and at return, if anything was hit, closest_so_far equals rec.t.
C19_FarBound == [][far_bound_step]_vars

\* C19, amended: the same for every ray whose direction has a squared
\* length above zero.
C19_FarBoundDirected == [][directed(r') => far_bound_step]_vars

\* two members hit one after the other, each lowering the far bound
C19_LoweredTwice ==
    /\ pc = "done" /\ ret /\ Len(objects) = 2 /\ directed(r)
    /\ hitters = {1, 2}
    /\ Lt(alone(2).rec.t, alone(1).rec.t)
    /\ Lt(alone(1).rec.t, ray_t.max)
    /\ closest_so_far = alone(2).rec.t

\* t solves the intersection quadratic a t^2 - 2 h t + c = 0 of s and q
is_root(s, q, t) ==
    Add(Sub(Mul(quad_a(s, q), Mul(t, t)),
            Mul(Int2D(2), Mul(quad_h(s, q), t))),
        quad_c(s, q)) = Zero

\* the other solution of the quadratic: the two roots add up to 2 h / a
other_root(s, q, t) ==
    Sub(Div(Mul(Int2D(2), quad_h(s, q)), quad_a(s, q)), t)

\* the ray's origin lies strictly inside s
origin_inside(s, q) ==
    Lt(length_squared(vsub(s.center, q.orig)), Mul(s.radius, s.radius))

\* what C18 says of a finished query of the sphere
root_order ==
    LET a == quad_a(queried, r)
        h == quad_h(queried, r)
        d == discriminant(queried, r)
        first == root_first(h, Sqrt(d), a)
        second == root_second(h, Sqrt(d), a)
    IN  /\ ret => /\ rec.t = (IF strictly_inside(first, ray_t)
                               THEN first ELSE second)
                  /\ strictly_inside(rec.t, ray_t)
                  /\ is_root(queried, r, rec.t)
                  /\ strictly_inside(other_root(queried, r, rec.t), ray_t)
                        => Le(rec.t, other_root(queried, r, rec.t))
        /\ ~ret => \/ Lt(d, Zero)
                   \/ /\ ~strictly_inside(first, ray_t)
                      /\ ~strictly_inside(second, ray_t)
        /\ (origin_inside(queried, r) /\ ray_t = interval(Zero, infinity)) =>
              /\ ret
              /\ rec.t = second /\ Lt(first, second)
              /\ ~rec.front_face

\* C18 as stated: sphere::hit tries (h - sqrtD)/a, then (h + sqrtD)/a, and
\* reports the first one strictly inside the interval, false only if both are
\* rejected; the reported t is the smallest real root of the quadratic
\* strictly inside the interval, and from an origin strictly inside the
\* sphere with (0, infinity) it is the larger root with front_face = false.
C18_RootOrder == pc = "sdone" => root_order

\* C18, amended: the same for every ray whose direction has a squared length
\* above zero.
C18_RootOrderDirected == (pc = "sdone" /\ directed(r)) => root_order

\* a ray from the centre of a sphere of radius 1 leaves it by the larger root
C18_FromInside ==
    /\ pc = "sdone" /\ directed(r) /\ ray_t = interval(Zero, infinity)
    /\ origin_inside(queried, r) /\ queried.radius = One
    /\ ret /\ ~rec.front_face
    /\ Lt(other_root(queried, r, rec.t), Zero)

(***************************************************************************)
(* Properties of interval.                                                 *)
(***************************************************************************)
\* contains, surrounds and the named constants as C17 says
membership ==
    LET iv == probe.iv
        x == probe.x
    IN  /\ probe.contains = (Le(iv.min, x) /\ Le(x, iv.max))
        /\ probe.surrounds = (Lt(iv.min, x) /\ Lt(x, iv.max))
        /\ probe.surrounds => probe.contains
        /\ iv = empty => ~probe.contains
        /\ (iv = universe /\ IsFinite(x)) => probe.contains

\* C17 as stated: for every interval and every x, contains(x) iff
\* min <= x <= max, surrounds(x) iff min < x < max, clamp(x) is min when
\* x < min, max when x > max and x otherwise; empty contains no x and
\* universe contains every finite x.
C17_Interval ==
    /\ membership
    /\ Lt(probe.x, probe.iv.min) => probe.clamp = probe.iv.min
    /\ Lt(probe.iv.max, probe.x) => probe.clamp = probe.iv.max
    /\ (~Lt(probe.x, probe.iv.min) /\ ~Lt(probe.iv.max, probe.x))
          => probe.clamp = probe.x

\* C17, amended: as stated, but clamp(x) is max when x > max and not
\* x < min: the test against min is made first, so an interval whose min
\* is above its max answers min for an x that is below min and above max.
C17_IntervalMinFirst ==
    /\ membership
    /\ Lt(probe.x, probe.iv.min) => probe.clamp = probe.iv.min
    /\ (Lt(probe.iv.max, probe.x) /\ ~Lt(probe.x, probe.iv.min))
          => probe.clamp = probe.iv.max
    /\ (~Lt(probe.x, probe.iv.min) /\ ~Lt(probe.iv.max, probe.x))
          => probe.clamp = probe.x

\* an inverted interval asked about a value between its max and its min
C17_InvertedClamped ==
    /\ Lt(probe.iv.max, probe.x) /\ Lt(probe.x, probe.iv.min)
    /\ IsFinite(probe.iv.min) /\ IsFinite(probe.iv.max)
    /\ probe.clamp = probe.iv.min
    /\ ~probe.contains

(***************************************************************************)
(* Properties of camera::initialize and camera::render.                    *)
(***************************************************************************)
\* the cell written k-th (k = 1, 2, ...) by a row-major scan of width w
cell(k, w) == <<(k - 1) % w, (k - 1) \div w>>

\* C7: render emits exactly image_height * image_width pixels, one per cell
\* (i, j) with 0 <= i < image_width and 0 <= j < image_height, in row-major
\* order, no cell twice and none skipped: at every moment of a render the
\* sink holds a prefix of the row-major scan, and the whole of it at the end.
C7_RowMajor ==
    phase \in {"rendering", "done"} =>
        /\ \A k \in 1..Len(sink) : sink[k] = cell(k, image_width)
        /\ Len(sink) <= image_height * image_width
        /\ phase = "done" => Len(sink) = image_height * image_width

\* a finished render of an image of at least two rows and two columns
C7_RenderedGrid ==
    /\ phase = "done"
    /\ image_width >= 2 /\ image_height >= 2
    /\ Len(sink) = image_height * image_width

\* C8: after initialize() image_height is the integer truncation of
\* image_width / aspect_ratio, or 1 when that is below 1, so it is at least 1;
\* 16/9 with width 400 gives 225 and 1 with width 100 gives 100.
C8_ImageHeight ==
    phase = "initialized" =>
        LET q == Div(Int2D(image_width), aspect_ratio)
        IN  /\ image_height >= 1
            /\ Lt(q, One) => image_height = 1
            /\ Le(One, q) => /\ Le(Int2D(image_height), q)
                             /\ Lt(q, Int2D(image_height + 1))
            /\ (aspect_ratio = Num(16, 9) /\ image_width = 400)
                  => image_height = 225
            /\ (aspect_ratio = One /\ image_width = 100) => image_height = 100

\* a width below the aspect ratio: the truncation is 0 and the height is 1
C8_ClampedToOne ==
    /\ phase = "initialized"
    /\ Lt(Zero, aspect_ratio)
    /\ Lt(Int2D(image_width), aspect_ratio)
    /\ image_height = 1

(***************************************************************************)
(* Properties of the colours.                                              *)
(***************************************************************************)
\* the colour a of the way from white to (0.5, 0.7, 1.0)
blend(a) == vec3(Sub(One, Mul(Half, a)), Sub(One, Mul(Num(3, 10), a)), One)

\* a of the sample of the draw in row row of the column being rendered
a_of(row, draw) == blend_a(get_ray(i, row, draw[1], draw[2]))

\* the samples of the pixel (i, j) of an empty scene are being cast
sampling_background ==
    phase = "rendering" /\ at_loop = "samples" /\ objects = <<>>

\* every sample colour, and the colour written last, is a blend
all_blend ==
    /\ sampling_background =>
          \A k \in 1..Len(cast) : \E draw \in Draws :
              /\ cast[k] = blend(a_of(j, draw))
              /\ Le(Zero, a_of(j, draw)) /\ Le(a_of(j, draw), One)
    /\ (phase \in {"rendering", "done"} /\ objects = <<>> /\ written # <<>>) =>
          LET a == Mul(Int2D(2), Sub(One, written[1]))
          IN  Le(Zero, a) /\ Le(a, One) /\ written = blend(a)

\* C11 as stated: with no hittables every pixel's colour is the blend
\* (1-a)*white + a*(0.5,0.7,1.0), a = 0.5*(unit_direction.y + 1), and the top
\* row is the row nearest to white (a nearest 0), the bottom row the row
\* nearest to (0.5,0.7,1.0): compared here sample by sample in one column.
C11_TopRowWhite ==
    /\ all_blend
    /\ sampling_background =>
          \A draw \in Draws :
              /\ Le(a_of(0, draw), a_of(j, draw))
              /\ Le(a_of(j, draw), a_of(image_height - 1, draw))

\* C11, amended: with no hittables every pixel's colour is that blend, and
\* in every column, for the same sample offset, a does not grow from one row
\* to the next: the top row is the row nearest to (0.5,0.7,1.0) (a nearest
\* 1, at least 1/2 for two rows or more), the bottom row the row nearest to
\* white (a nearest 0, at most 1/2).
C11_TopRowBlue ==
    /\ all_blend
    /\ sampling_background =>
          \A draw \in Draws :
              /\ Le(a_of(image_height - 1, draw), a_of(j, draw))
              /\ Le(a_of(j, draw), a_of(0, draw))
              /\ j + 1 < image_height => Le(a_of(j + 1, draw), a_of(j, draw))
              /\ image_height >= 2 =>
                    /\ Le(Half, a_of(0, draw))
                    /\ Le(a_of(image_height - 1, draw), Half)

\* the bottom row of an image of three rows or more, whiter than the top row
C11_BottomRowWhiter ==
    /\ sampling_background
    /\ image_height >= 3 /\ j = image_height - 1 /\ Len(cast) >= 1
    /\ \A draw \in Draws : Lt(a_of(j, draw), a_of(0, draw))
    /\ Lt(Num(3, 4), cast[1][1])

\* the three components of the colour c lie in [0, 1]
in_range(c) == \A k \in 1..3 : Le(Zero, c[k]) /\ Le(c[k], One)

\* C12: every colour render() hands to the sink has all three components in
\* [0, 1], for every scene of spheres and every configuration with
\* samples_per_pixel >= 1: each sample colour is in [0, 1] and the emitted
\* value is the average of the samples.
C12_ColourRange ==
    (phase \in {"rendering", "done"} /\ samples_per_pixel >= 1) =>
        /\ written # <<>> => in_range(written)
        /\ at_loop = "samples" => \A k \in 1..Len(cast) : in_range(cast[k])

\* the sum of the colours of the sequence cs, from (0, 0, 0)
RECURSIVE sum_of(_)
sum_of(cs) ==
    IF cs = <<>> THEN V(0, 0, 0)
    ELSE vadd(sum_of(SubSeq(cs, 1, Len(cs) - 1)), cs[Len(cs)])

\* the pixel that cast belongs to has been written and no other begun
pixel_written ==
    /\ phase \in {"rendering", "done"}
    /\ at_loop \in {"columns", "rows"}
    /\ written # <<>>

\* C13: for every pixel render() casts exactly samples_per_pixel rays, starts
\* the accumulator at (0,0,0) and emits (1/samples_per_pixel) times the sum
\* of those samples' colours, none of them a sample of another pixel; if
\* every sample of the pixel has the same colour c, the emitted colour is c.
C13_SampleAverage ==
    /\ (phase = "rendering" /\ at_loop = "samples") =>
          /\ Len(cast) = sample /\ sample <= samples_per_pixel
          /\ pixel_color = sum_of(cast)
    /\ pixel_written =>
          /\ Len(cast) = samples_per_pixel
          /\ written = vscale(Div(One, Int2D(samples_per_pixel)), sum_of(cast))
          /\ (\A k \in 1..Len(cast) : cast[k] = cast[1]) => written = cast[1]

\* a pixel of two samples of different colours, written with their mean
C13_TwoSamplesWritten ==
    /\ pixel_written /\ samples_per_pixel = 2 /\ Len(sink) >= 2
    /\ Lt(cast[1][1], written[1]) /\ Lt(written[1], cast[2][1])
    /\ Add(written[1], written[1]) = Add(cast[1][1], cast[2][1])

(***************************************************************************)
(* Properties of the life of a render.                                     *)
(***************************************************************************)
\* the changes of phase: a call of render() initializes, renders and is
\* done; a change of the configuration leaves the camera uninitialized
PhaseOrder ==
    {<<"uninitialized", "initialized">>, <<"done", "initialized">>,
     <<"initialized", "rendering">>, <<"rendering", "done">>,
     <<"done", "uninitialized">>}

\* one step keeps the order of C14
lifecycle_step ==
    /\ phase' # phase => <<phase, phase'>> \in PhaseOrder
    /\ derived' # derived => phase' = "initialized"
    /\ sink' # sink =>
          \/ phase = "initialized" /\ sink' = <<>>
          \/ /\ phase = "rendering" /\ phase' = "rendering"
             /\ Len(sink') = Len(sink) + 1
    /\ phase' = "done" => Len(sink') = image_height' * image_width'

\* C14: every call of render(world) with a finite scene, image_width and
\* samples_per_pixel passes through initialized, rendering and done in that
\* order and always reaches done: initialize() completes before the first
\* pixel is emitted, no pixel is emitted after done, and the render does not
\* stop before all rows are emitted.
C14_RunsToDone ==
    /\ [][lifecycle_step]_vars
    /\ (phase = "initialized") ~>
          (phase = "done" /\ Len(sink) = image_height * image_width)

\* a render of two rows of one pixel, two samples each, is done
C14_TwoRowsDone ==
    /\ phase = "done" /\ samples_per_pixel = 2
    /\ image_width = 1 /\ image_height = 2
    /\ sink = <<<<0, 0>>, <<0, 1>>>>
    /\ header = <<1, 2>>

(***************************************************************************)
(* Properties of the derived state.                                        *)
(***************************************************************************)
\* the derived fields written out as functions of the configuration alone: a
\* viewport 2 high and 2 * width / height wide, one unit before the origin
from_config ==
    LET q == Div(Int2D(image_width), aspect_ratio)
    IN  /\ image_height >= 1
        /\ Lt(q, One) => image_height = 1
        /\ Le(One, q) => /\ Le(Int2D(image_height), q)
                         /\ Lt(q, Int2D(image_height + 1))
        /\ Mul(pixel_samples_scale, Int2D(samples_per_pixel)) = One
        /\ center = V(0, 0, 0)
        /\ pixel_delta_u = vec3(Num(2, image_height), Zero, Zero)
        /\ pixel_delta_v = vec3(Zero, Num(-2, image_height), Zero)
        /\ pixel00_loc = vec3(Num(1 - image_width, image_height),
                              Num(image_height - 1, image_height),
                              Int2D(-1))

\* C15: the derived camera state after initialize() depends only on the
\* current configuration: from initialize() to the end of the render every
\* derived field is the value the configuration gives it, whatever was rendered
\* before, and initialize() run again on an unchanged configuration leaves
\* the derived state as it was.
C15_DerivedFromConfig ==
    /\ [](phase \in {"initialized", "rendering", "done"} => from_config)
    /\ [][(phase = "done" /\ phase' = "initialized") => derived' = derived]_vars

\* initialize() has run for a second render after the configuration was
\* changed: the header and the pixels of the first render are still there
C15_Reconfigured ==
    /\ phase = "initialized"
    /\ sink # <<>>
    /\ header[1] # image_width /\ header[2] # image_height
    /\ header[2] >= 1

====
